---- MODULE Spec2Model ----
(***************************************************************************)
(* State-machine model of the ingestion path of weather-crawler            *)
(* (src/01_sync_data.py): init_db, _load_payload, _iter_forecast_locations,*)
(* _iter_tide_locations, _extract_temperature and fetch_and_save, run by   *)
(* the entry point `init_db(); fetch_and_save()`, and of the dashboard     *)
(* (src/02_app.py): ensure_database, the table query and the overview      *)
(* metrics of one script run.                                              *)
(*                                                                         *)
(* JSON values are modelled structurally:                                  *)
(*   text        a tuple of one-character strings, "" is << >>             *)
(*   None        the one-element tuple <<"None">> (no text holds it)       *)
(*   a list      [isList |-> TRUE, items |-> <<...>>]; a value that is not *)
(*               a list (absent key, None, a string) has isList = FALSE    *)
(*   a dict      a record with isDict = TRUE; any other list member has    *)
(*               isDict = FALSE                                            *)
(* SQL REAL columns hold << >> (NULL) or <<v>>.                            *)
(***************************************************************************)
EXTENDS Integers, Sequences, FiniteSets, TLC

\* ------------------------------------------------------------------ bounds

\* Longest list of locations in one candidate of a payload.
MaxLocs == 2
\* Longest daily series of one weather element.
MaxDays == 2
\* Number of entry-point runs in the re-run scenario.
MaxRuns == 2
\* Longest startTime string of a tide entry.
MaxTimeLen == 12

\* ------------------------------------------------------------- text values

None == <<"None">>
EmptyText == << >>

\* Python truthiness of a text-or-None value.
TruthyText(t) == t # None /\ t # EmptyText

\* a or b
PyOr(a, b) == IF TruthyText(a) THEN a ELSE b

DigitVal == [c \in {"0", "1", "2", "3", "4", "5", "6", "7", "8", "9"} |->
               CASE c = "0" -> 0 [] c = "1" -> 1 [] c = "2" -> 2 [] c = "3" -> 3
                 [] c = "4" -> 4 [] c = "5" -> 5 [] c = "6" -> 6 [] c = "7" -> 7
                 [] c = "8" -> 8 [] c = "9" -> 9]

\* float(t) raises ValueError unless t is a numeral.
Coercible(t) == t # EmptyText /\ \A i \in 1..Len(t) : t[i] \in DOMAIN DigitVal

RECURSIVE FloatOf(_)
FloatOf(t) == IF t = EmptyText THEN 0
              ELSE 10 * FloatOf(SubSeq(t, 1, Len(t) - 1)) + DigitVal[t[Len(t)]]

\* s[:n]
Prefix(s, n) == SubSeq(s, 1, IF Len(s) < n THEN Len(s) ELSE n)

\* A locationName that sqlite3 cannot bind (a JSON object or array).
Unbindable == "{object}"
Bindable(name) == name # Unbindable

\* -------------------------------------------------------------- JSON shapes

NotAList == [isList |-> FALSE, items |-> << >>]
ListOf(s) == [isList |-> TRUE, items |-> s]

\* One member of a "daily" list.
Item(date, temp, wx) ==
  [isDict |-> TRUE, dataDate |-> date, temperature |-> temp, weather |-> wx]
JunkItem == [isDict |-> FALSE, dataDate |-> None, temperature |-> None, weather |-> None]

\* One weather element of a location: the key is absent, or its "daily" is
\* not a list, or "daily" is a list.
AbsentElement == [kind |-> "absent", daily |-> << >>]
NoDailyElement == [kind |-> "notlist", daily |-> << >>]
Element(daily) == [kind |-> "list", daily |-> daily]

\* One member of a "location" list.  An agricultural entry carries
\* weatherElements, a tide entry carries time (a list of startTime values).
Entry(name, mn, mx, wx) ==
  [isDict |-> TRUE, locationName |-> name, MinT |-> mn, MaxT |-> mx, Wx |-> wx,
   time |-> << >>]
TideEntry(name, times) ==
  [isDict |-> TRUE, locationName |-> name, MinT |-> AbsentElement,
   MaxT |-> AbsentElement, Wx |-> AbsentElement, time |-> times]
JunkEntry ==
  [isDict |-> FALSE, locationName |-> "junk", MinT |-> AbsentElement,
   MaxT |-> AbsentElement, Wx |-> AbsentElement, time |-> << >>]

\* A payload: cwaopendata.dataset.data and cwaopendata.resources.resource.data
\* (each a tuple of at most one block, empty when the "data" key is absent; a
\* block is the value found at agrWeatherForecasts.weatherForecasts.location),
\* and cwaopendata.dataset.location.
Payload(ds, rs, td) == [dataset_data |-> ds, resource_data |-> rs, tide |-> td]
NoPayload == Payload(<< >>, << >>, NotAList)

\* ----------------------------------------------- pure functions of the code

\* _extract_temperature: None (some = FALSE) unless the element is a non-empty
\* dict whose "daily" is a list; then the dict members of that list.
ExtractTemperature(element) ==
  IF element.kind # "list" THEN [some |-> FALSE, items |-> << >>]
  ELSE [some |-> TRUE, items |-> SelectSeq(element.daily, LAMBDA it : it.isDict)]

\* Truthiness of an Optional[List]: neither None nor [].
TruthySeries(s) == s.some /\ s.items # << >>

\* potential_data_blocks: the dataset block first, then the resource block.
PotentialDataBlocks(payload) == payload.dataset_data \o payload.resource_data

\* Mutant: the loop over the blocks without its break.
IterAllBlocks(payload) ==
  LET blocks == PotentialDataBlocks(payload)
      F[i \in 0..Len(blocks)] ==
        IF i = 0 THEN << >>
        ELSE F[i - 1] \o (IF blocks[i].isList
                          THEN SelectSeq(blocks[i].items, LAMBDA e : e.isDict)
                          ELSE << >>)
  IN F[Len(blocks)]

\* _iter_forecast_locations: the dict members of the first block whose
\* location value is a list (the loop breaks there, whatever the list holds).
IterForecastLocations(payload) ==
  LET blocks == PotentialDataBlocks(payload)
      lists == {i \in 1..Len(blocks) : blocks[i].isList}
  IN IF lists = {} THEN << >>
     ELSE LET first == CHOOSE i \in lists : \A j \in lists : i <= j
          IN SelectSeq(blocks[first].items, LAMBDA e : e.isDict)

\* _iter_tide_locations: the dict members of cwaopendata.dataset.location.
IterTideLocations(payload) ==
  IF payload.tide.isList THEN SelectSeq(payload.tide.items, LAMBDA e : e.isDict)
  ELSE << >>

\* Mutant: the loop stops one record short of the shortest series.
LimitOneShort(a, b, c) ==
  (IF a <= b THEN (IF a <= c THEN a ELSE c) ELSE (IF b <= c THEN b ELSE c)) - 1

\* limit = min(len(min_series), len(max_series), len(weather_series))
Limit(a, b, c) ==
  IF a <= b THEN (IF a <= c THEN a ELSE c) ELSE (IF b <= c THEN b ELSE c)

\* Mutant: a location is skipped only when all three series are missing.
IncompleteWhenAllMissing(mn, mx, wx) ==
  ~(TruthySeries(mn) \/ TruthySeries(mx) \/ TruthySeries(wx))

\* not (min_series and max_series and weather_series)
Incomplete(mn, mx, wx) ==
  ~(TruthySeries(mn) /\ TruthySeries(mx) /\ TruthySeries(wx))

\* float(x) if x is not None else None, as a REAL column value.
RealColumn(raw) == IF raw = None THEN << >> ELSE <<FloatOf(raw)>>

\* The INSERT of one agricultural record raises (and is caught) when a
\* temperature cannot be coerced or the location name cannot be bound.
AgrInsertOk(name, minRaw, maxRaw) ==
  /\ minRaw = None \/ Coercible(minRaw)
  /\ maxRaw = None \/ Coercible(maxRaw)
  /\ Bindable(name)

\* The insert attempts of one agricultural entry (the k-th of the run), in
\* order: the body of `for idx in range(limit)`.
AgrAttempts(entry, k) ==
  LET mn == ExtractTemperature(entry.MinT)
      mx == ExtractTemperature(entry.MaxT)
      wx == ExtractTemperature(entry.Wx)
  IN IF Incomplete(mn, mx, wx) THEN << >>
     ELSE [idx \in 1..Limit(Len(mn.items), Len(mx.items), Len(wx.items)) |->
             [entry |-> k,
              location |-> entry.locationName,
              forecast_date |-> PyOr(mn.items[idx].dataDate, mx.items[idx].dataDate),
              min_raw |-> mn.items[idx].temperature,
              max_raw |-> mx.items[idx].temperature,
              description |-> wx.items[idx].weather,
              ok |-> AgrInsertOk(entry.locationName, mn.items[idx].temperature,
                                 mx.items[idx].temperature)]]

\* The row a successful agricultural attempt inserts (tagged with its run).
AgrRow(a, r) ==
  [location |-> a.location, forecast_date |-> a.forecast_date,
   min_temp |-> RealColumn(a.min_raw), max_temp |-> RealColumn(a.max_raw),
   description |-> a.description, run |-> r, entry |-> a.entry]

\* start_time[:10]
DatePrefixLen == 10
\* Stand-ins for the two placeholder literals of the tide path.
UnknownDate == <<"?", "d", "a", "t", "e">>
TideLabel == <<"t", "i", "d", "e">>

\* first = times[0] if isinstance(times, list) and times else {}
\* start_time = first.get("startTime", "")
StartTime(entry) == IF entry.time # << >> THEN entry.time[1] ELSE EmptyText

\* Mutant: the raw string stored as the date, never cut.
TideDateUncut(st) == PyOr(st, UnknownDate)

\* date_str = start_time[:10] if len(start_time) >= 10 else start_time or "..."
TideDate(st) ==
  IF Len(st) >= DatePrefixLen THEN Prefix(st, DatePrefixLen) ELSE PyOr(st, UnknownDate)

\* description = start_time or "..."
TideDescription(st) == PyOr(st, TideLabel)

\* Mutant: the tide row written with NULL temperatures.
TideTemperatureNull == << >>

\* The literal 0.0 bound to min_temp and max_temp in the tide INSERT.
TideTemperature == <<0>>

\* The row the tide INSERT writes for one entry (the k-th of the run).
TideRow(entry, r, k) ==
  [location |-> entry.locationName, forecast_date |-> TideDate(StartTime(entry)),
   min_temp |-> TideTemperature, max_temp |-> TideTemperature,
   description |-> TideDescription(StartTime(entry)), run |-> r, entry |-> k]

\* The tide INSERT is outside any try: it raises when the name cannot be bound.
TideInsertOk(entry) == Bindable(entry.locationName)

\* ------------------------------------------------------ the payloads tried

DigitChar(p) == <<"0", "1", "2", "3", "4", "5", "6", "7", "8", "9">>[(p % 10) + 1]

\* A mark on one member of one daily series of an entry.
NoDefect == <<"none", 0, "none">>

\* The p-th member of a daily series: its values name the element and the
\* position, so that a record shows which members it was built from.
MinItem(p, d) ==
  IF d = <<"MinT", p, "junk">> THEN JunkItem
  ELSE Item(IF d = <<"MinT", p, "nodate">> THEN None ELSE <<"D", DigitChar(p)>>,
            IF d = <<"MinT", p, "bad">> THEN <<"x">> ELSE <<"1", DigitChar(p)>>,
            None)
MaxItem(p, d) ==
  IF d = <<"MaxT", p, "junk">> THEN JunkItem
  ELSE Item(<<"E", DigitChar(p)>>,
            IF d = <<"MaxT", p, "none">> THEN None ELSE <<"2", DigitChar(p)>>,
            None)
WxItem(p, d) ==
  IF d = <<"Wx", p, "junk">> THEN JunkItem
  ELSE Item(None, None, <<"w", DigitChar(p)>>)

ElementShapes(withNotList, days) ==
  {[kind |-> "absent", len |-> 0]}
    \cup (IF withNotList THEN {[kind |-> "notlist", len |-> 0]} ELSE {})
    \cup {[kind |-> "list", len |-> n] : n \in 0..days}

Defects(a, b, c) ==
  {NoDefect}
    \cup {<<"MinT", p, k>> : p \in 1..a, k \in {"bad", "junk", "nodate"}}
    \cup {<<"MaxT", p, k>> : p \in 1..b, k \in {"none", "junk"}}
    \cup {<<"Wx", p, k>> : p \in 1..c, k \in {"junk"}}

MakeElement(shape, daily) ==
  IF shape.kind = "absent" THEN AbsentElement
  ELSE IF shape.kind = "notlist" THEN NoDailyElement
  ELSE Element(daily)

MakeEntry(name, sa, sb, sc, d) ==
  Entry(name,
        MakeElement(sa, [p \in 1..sa.len |-> MinItem(p, d)]),
        MakeElement(sb, [p \in 1..sb.len |-> MaxItem(p, d)]),
        MakeElement(sc, [p \in 1..sc.len |-> WxItem(p, d)]))

\* A location whose three series are complete and m days long.
GoodEntry(name, m) ==
  MakeEntry(name, [kind |-> "list", len |-> m], [kind |-> "list", len |-> m],
            [kind |-> "list", len |-> m], NoDefect)

\* A list of n locations: location e at position k among complete ones.
VariedList(n, k, m, e) == [i \in 1..n |-> IF i = k THEN e ELSE GoodEntry("G", m)]

\* Location lists of n complete locations with m days each.
CompleteLists(locations, days) ==
  {[i \in 1..n |-> GoodEntry(<<"A", "B", "C", "D">>[((i - 1) % 4) + 1], m)] :
     n \in 1..locations, m \in 1..days}

\* The k-th character of a startTime such as 2025-01-15T06:00:00+08:00.
TimeChar(k) ==
  IF k \in {5, 8} THEN "-" ELSE IF k = 11 THEN "T" ELSE IF k \in {14, 17} THEN ":"
  ELSE DigitChar(k)

TideTimes(longest) == {[k \in 1..n |-> TimeChar(k)] : n \in 0..longest}

TideEntries(longest) ==
  {TideEntry("T", <<t>>) : t \in TideTimes(longest)}
    \cup {TideEntry("U", << >>), TideEntry("V", <<<<"0", "6">>, <<"1", "8">>>>)}

\* The payloads of the re-run scenario: every combination of the three
\* candidates being absent, not a list, empty or filled.
CorePayloads ==
  {Payload(ds, rs, td) :
     ds \in {<< >>, <<NotAList>>, <<ListOf(<< >>)>>, <<ListOf(<<GoodEntry("A", 1)>>)>>},
     rs \in {<< >>, <<ListOf(<< >>)>>, <<ListOf(<<GoodEntry("B", 1)>>)>>},
     td \in {NotAList,
             ListOf(<<TideEntry("T", <<<<"0", "6">>>>)>>),
             ListOf(<<TideEntry("T", <<<<"0", "6">>>>),
                      TideEntry(Unbindable, <<<<"1", "8">>>>),
                      TideEntry("W", <<<<"2", "0">>>>)>>)}}

\* The entry point is run MaxRuns times in the re-run scenario, once otherwise.
RunLimit(p) == IF p = "rerun" THEN MaxRuns ELSE 1

\* ------------------------------------------------------------------- state

VARIABLES
  profile,       \* the scenario: which payloads the environment serves
  pc,            \* position of the entry point: idle, fetch, loaded, batch
  run,           \* number of entry-point runs started
  outcome,       \* how the last run ended: none, running, load_failed, committed, crashed
  dbExists,      \* os.path.exists(DB_NAME)
  tableExists,   \* the weather table exists in the store file
  table,         \* the committed rows of the weather table
  payload,       \* the payload of this run
  localExists,   \* LOCAL_JSON_PATH.exists() as _load_payload saw it
  fileReads,     \* reads of the local file in this run
  httpGets,      \* requests.get calls in this run
  loadError,     \* none, decode, transport, status
  connOpened,    \* fetch_and_save opened its connection in this run
  path,          \* none, agr, tide: the branch of `if forecasts`
  locs,          \* the location entries the batch loop iterates
  done,          \* entries of locs already handled
  attempts,      \* the agricultural INSERTs executed in this run, in order
  pending,       \* rows inserted in the open transaction
  skipped,       \* positions in locs of the locations reported as skipped
  insert_count,  \* the local insert_count
  reported,      \* the count printed at the end of the run (-1: nothing printed)
  cwdIsAppDir,   \* the working directory is the directory of 02_app.py
  syncScriptExists, \* SYNC_SCRIPT.exists()
  dash,          \* position of the dashboard script: off, ensure, syncing,
                 \* checked, stopped, shown, failed
  foundAtStart,  \* DB_PATH.exists() held at the top of ensure_database
  syncLaunches,  \* subprocess.run calls of this script run
  launchRun,     \* the value of run when the subprocess was started
  syncOutcome,   \* how the subprocess ended (none: not run, or still running)
  queries,       \* SELECT statements issued by this script run
  df,            \* the rows the query returned
  selected_loc,  \* the option chosen in the sidebar
  avg_min,       \* the first metric, in tenths of a degree (<< >>: nan)
  avg_max        \* the second metric, in tenths of a degree (<< >>: nan)

vars == <<profile, pc, run, outcome, dbExists, tableExists, table, payload,
          localExists, fileReads, httpGets, loadError, connOpened, path, locs,
          done, attempts, pending, skipped, insert_count, reported,
          cwdIsAppDir, syncScriptExists, dash, foundAtStart, syncLaunches,
          launchRun, syncOutcome, queries, df, selected_loc, avg_min, avg_max>>

storeVars == <<dbExists, tableExists, table>>
loadVars == <<payload, localExists, fileReads, httpGets, loadError>>
batchVars == <<connOpened, path, locs, done, attempts, pending, skipped,
               insert_count, reported>>
placeVars == <<cwdIsAppDir, syncScriptExists>>
pageVars == <<queries, df, selected_loc, avg_min, avg_max>>
dashVars == <<placeVars, dash, foundAtStart, syncLaunches, launchRun, syncOutcome,
              pageVars>>

\* ALL_OPTION
ALL_OPTION == "ALL"
\* What a metric shows for a mean that is nan.
NaN == << >>

\* The dashboard before its script runs.  Where the scenario is about the
\* dashboard it may be started from any directory, with or without the sync
\* script beside it.
DashOff(p) ==
  /\ cwdIsAppDir \in (IF p = "dash" THEN BOOLEAN ELSE {TRUE})
  /\ syncScriptExists \in (IF p = "dash" THEN BOOLEAN ELSE {TRUE})
  /\ dash = "off"
  /\ foundAtStart = FALSE
  /\ syncLaunches = 0
  /\ launchRun = 0
  /\ syncOutcome = "none"
  /\ queries = 0
  /\ df = << >>
  /\ selected_loc = ALL_OPTION
  /\ avg_min = NaN
  /\ avg_max = NaN

InitOf(p) ==
  /\ profile = p
  /\ pc = "idle"
  /\ run = 0
  /\ outcome = "none"
  /\ dbExists = FALSE
  /\ tableExists = FALSE
  /\ table = << >>
  /\ payload = NoPayload
  /\ localExists = FALSE
  /\ fileReads = 0
  /\ httpGets = 0
  /\ loadError = "none"
  /\ connOpened = FALSE
  /\ path = "none"
  /\ locs = << >>
  /\ done = 0
  /\ attempts = << >>
  /\ pending = << >>
  /\ skipped = << >>
  /\ insert_count = 0
  /\ reported = -1
  /\ DashOff(p)

Init == InitOf("rerun")
InitAgr == InitOf("agr")
InitTide == InitOf("tide")
InitDash == InitOf("dash")

\* ----------------------------------------------------------------- init_db

\* The rows of the weather table after init_db: os.remove succeeded (or there
\* was no file) and CREATE TABLE made an empty table, or os.remove raised, the
\* bare except passed, and CREATE TABLE IF NOT EXISTS left the old table alone.
StoreAfterInit(exists, removed, rows) ==
  IF exists /\ ~removed THEN rows ELSE << >>

\* init_db(), the first call of the entry point.
InitDb ==
  /\ pc = "idle"
  /\ run < RunLimit(profile)
  /\ \E removed \in BOOLEAN :
       /\ dbExists \/ removed
       /\ table' = StoreAfterInit(dbExists, removed, table)
  /\ dbExists' = TRUE
  /\ tableExists' = TRUE
  /\ run' = run + 1
  /\ pc' = "fetch"
  /\ outcome' = "running"
  /\ payload' = NoPayload
  /\ localExists' = FALSE
  /\ fileReads' = 0
  /\ httpGets' = 0
  /\ loadError' = "none"
  /\ connOpened' = FALSE
  /\ path' = "none"
  /\ locs' = << >>
  /\ done' = 0
  /\ attempts' = << >>
  /\ pending' = << >>
  /\ skipped' = << >>
  /\ insert_count' = 0
  /\ reported' = -1
  /\ UNCHANGED <<profile, dashVars>>

\* ------------------------------------------------------------ _load_payload

\* What the environment holds when _load_payload runs: whether the local file
\* exists and decodes, and how the HTTP GET would end.
Environments ==
  [localExists : BOOLEAN, fileDecodes : BOOLEAN,
   http : {"ok", "transport", "status", "decode"}]

Loaded(data, reads, gets) ==
  [ok |-> TRUE, payload |-> data, fileReads |-> reads, httpGets |-> gets,
   error |-> "none"]
LoadFailed(why, reads, gets) ==
  [ok |-> FALSE, payload |-> NoPayload, fileReads |-> reads, httpGets |-> gets,
   error |-> why]

\* Mutant: a local file that does not decode falls back to the endpoint.
LoadWithFallback(env, data) ==
  IF env.localExists /\ env.fileDecodes THEN Loaded(data, 1, 0)
  ELSE IF env.http = "ok" THEN Loaded(data, IF env.localExists THEN 1 ELSE 0, 1)
  ELSE LoadFailed(env.http, IF env.localExists THEN 1 ELSE 0, 1)

\* _load_payload in environment env, data being the document served: the
\* local file when it exists (json.load may raise), else one requests.get,
\* then raise_for_status and response.json (each may raise).
LoadPayloadOf(env, data) ==
  IF env.localExists
  THEN IF env.fileDecodes THEN Loaded(data, 1, 0) ELSE LoadFailed("decode", 1, 0)
  ELSE IF env.http = "ok" THEN Loaded(data, 0, 1) ELSE LoadFailed(env.http, 0, 1)

\* The try/except around _load_payload: keep the payload, or return.
LoadEnds(env, r) ==
  /\ localExists' = env.localExists
  /\ payload' = r.payload
  /\ fileReads' = r.fileReads
  /\ httpGets' = r.httpGets
  /\ loadError' = r.error
  /\ pc' = IF r.ok THEN "loaded" ELSE "idle"
  /\ outcome' = IF r.ok THEN "running" ELSE "load_failed"

\* fetch_and_save, lines 135-140: load the payload, return when loading raised.
\* The document served is one of CorePayloads.  The agricultural scenario adds
\* location lists with one location of any shape (its three series absent,
\* not lists, or 0..MaxDays long, with at most one marked member) or a member
\* that is no dict, and complete lists under either or both nesting paths.
\* The tide scenario adds tide lists of every startTime length.  The dashboard
\* scenario adds lists whose first location has 1..MaxDays days, all its
\* maxima given or one of them null, beside complete one-day locations.
LoadPayload ==
  /\ pc = "fetch"
  /\ \E env \in Environments :
       IF ~LoadPayloadOf(env, NoPayload).ok
       THEN LoadEnds(env, LoadPayloadOf(env, NoPayload))
       ELSE
         \/ \E data \in CorePayloads : LoadEnds(env, LoadPayloadOf(env, data))
         \/ /\ profile = "agr"
            /\ \E n \in 1..MaxLocs, k \in 1..MaxLocs, m \in 1..MaxDays :
                 \/ \E sa \in ElementShapes(TRUE, MaxDays),
                       sb \in ElementShapes(FALSE, MaxDays),
                       sc \in ElementShapes(FALSE, MaxDays) :
                      \E d \in Defects(sa.len, sb.len, sc.len) :
                        LoadEnds(env, LoadPayloadOf(env,
                          Payload(<<ListOf(VariedList(n, k, m,
                                     MakeEntry("R", sa, sb, sc, d)))>>,
                                  << >>, NotAList)))
                 \/ LoadEnds(env, LoadPayloadOf(env,
                      Payload(<<ListOf(VariedList(n, k, m, JunkEntry))>>,
                              << >>, NotAList)))
         \/ /\ profile = "agr"
            /\ \E ds \in {<< >>, <<NotAList>>}
                           \cup {<<ListOf(l)>> : l \in CompleteLists(MaxLocs, MaxDays)},
                  rs \in {<< >>}
                           \cup {<<ListOf(l)>> : l \in CompleteLists(MaxLocs, MaxDays)} :
                 LoadEnds(env, LoadPayloadOf(env, Payload(ds, rs, NotAList)))
         \/ /\ profile = "tide"
            /\ \E ds \in {<< >>, <<NotAList>>}, n \in 1..MaxLocs :
                 \E l \in [1..n -> TideEntries(MaxTimeLen)] :
                   LoadEnds(env, LoadPayloadOf(env, Payload(ds, << >>, ListOf(l))))
         \/ /\ profile = "dash"
            /\ \E n \in 1..MaxLocs, m \in 1..MaxDays :
                 \E d \in {NoDefect} \cup {<<"MaxT", q, "none">> : q \in 1..m} :
                   LoadEnds(env, LoadPayloadOf(env,
                     Payload(<<ListOf(VariedList(n, 1, 1,
                                MakeEntry("R", [kind |-> "list", len |-> m],
                                          [kind |-> "list", len |-> m],
                                          [kind |-> "list", len |-> m], d)))>>,
                             << >>, NotAList)))
  /\ UNCHANGED <<profile, run, storeVars, batchVars, dashVars>>

\* ------------------------------------------------------------ fetch_and_save

\* Lines 143-152 and 197-200: open the connection, list the agricultural
\* locations, and take the tide locations when that list is empty.
ParseForecasts ==
  /\ pc = "loaded"
  /\ connOpened' = TRUE
  /\ LET forecasts == IterForecastLocations(payload) IN
       IF forecasts # << >>
       THEN path' = "agr" /\ locs' = forecasts
       ELSE path' = "tide" /\ locs' = IterTideLocations(payload)
  /\ pc' = "batch"
  /\ UNCHANGED <<profile, run, outcome, storeVars, loadVars, done, attempts,
                 pending, skipped, insert_count, reported, dashVars>>

\* Lines 153-195: one iteration of `for entry in forecasts`.
ProcessForecast ==
  /\ pc = "batch"
  /\ path = "agr"
  /\ done < Len(locs)
  /\ LET entry == locs[done + 1]
         tried == AgrAttempts(entry, done + 1)
         rows == [i \in 1..Len(SelectSeq(tried, LAMBDA a : a.ok)) |->
                    AgrRow(SelectSeq(tried, LAMBDA a : a.ok)[i], run)]
     IN /\ skipped' = IF Incomplete(ExtractTemperature(entry.MinT),
                                    ExtractTemperature(entry.MaxT),
                                    ExtractTemperature(entry.Wx))
                      THEN Append(skipped, done + 1) ELSE skipped
        /\ attempts' = attempts \o tried
        /\ pending' = pending \o rows
        /\ insert_count' = insert_count + Len(rows)
  /\ done' = done + 1
  /\ UNCHANGED <<profile, pc, run, outcome, storeVars, loadVars, connOpened, path,
                 locs, reported, dashVars>>

\* Lines 200-216: one iteration of `for entry in _iter_tide_locations(payload)`.
\* An INSERT that raises leaves the `with` block: the transaction is rolled
\* back and the process ends with the exception.
ProcessTide ==
  /\ pc = "batch"
  /\ path = "tide"
  /\ done < Len(locs)
  /\ LET entry == locs[done + 1] IN
       IF TideInsertOk(entry)
       THEN /\ pending' = Append(pending, TideRow(entry, run, done + 1))
            /\ insert_count' = insert_count + 1
            /\ done' = done + 1
            /\ UNCHANGED <<pc, outcome>>
       ELSE /\ pending' = << >>
            /\ pc' = "idle"
            /\ outcome' = "crashed"
            /\ UNCHANGED <<insert_count, done>>
  /\ UNCHANGED <<profile, run, storeVars, loadVars, connOpened, path, locs,
                 attempts, skipped, reported, dashVars>>

\* Lines 218-224: conn.commit(), leave the `with` block, print the count.
Commit ==
  /\ pc = "batch"
  /\ done = Len(locs)
  /\ table' = table \o pending
  /\ pending' = << >>
  /\ reported' = insert_count
  /\ pc' = "idle"
  /\ outcome' = "committed"
  /\ UNCHANGED <<profile, run, dbExists, tableExists, loadVars, connOpened, path,
                 locs, done, attempts, skipped, insert_count, dashVars>>

Next ==
  \/ InitDb
  \/ LoadPayload
  \/ ParseForecasts
  \/ ProcessForecast
  \/ ProcessTide
  \/ Commit

Spec == Init /\ [][Next]_vars
SpecAgr == InitAgr /\ [][Next]_vars
SpecTide == InitTide /\ [][Next]_vars

\* ---------------------------------------------------- the dashboard, 02_app.py

\* DB_PATH.exists(): DB_PATH is data.db beside 02_app.py, while the entry point
\* opens DB_NAME = "data.db" in its working directory.  The subprocess inherits
\* the working directory of the dashboard, so the two are one file only when
\* the dashboard was started in its own directory; nothing else writes DB_PATH.
DbPathExists == cwdIsAppDir /\ dbExists

\* Mutant: a SELECT that sees the rows of a transaction still open elsewhere
\* (the inserts made outside a transaction, each visible when executed).
VisibleUncommitted(committed, uncommitted) == committed \o uncommitted

\* What SELECT * FROM weather returns on another connection while the batch
\* connection holds uncommitted inserts: the committed rows.
Visible(committed, uncommitted) == committed

\* The sidebar options: ALL_OPTION and the locations of df.
Options(rows) == {ALL_OPTION} \cup {rows[i].location : i \in 1..Len(rows)}

\* Mutant: the overview keeps the rows of the first location only.
FilteredFirstLocation(rows, sel) ==
  IF sel = ALL_OPTION THEN SelectSeq(rows, LAMBDA r : r.location = rows[1].location)
  ELSE SelectSeq(rows, LAMBDA r : r.location = sel)

\* filtered_df: df.copy() for ALL_OPTION, else the rows of the chosen location.
Filtered(rows, sel) ==
  IF sel = ALL_OPTION THEN rows ELSE SelectSeq(rows, LAMBDA r : r.location = sel)

\* The values of one REAL column that Series.mean() counts: NULL is read as
\* NaN and skipped.
ColumnValues(rows, col) ==
  LET given == SelectSeq(rows, LAMBDA r : r[col] # << >>)
  IN [i \in 1..Len(given) |-> given[i][col][1]]

RECURSIVE SumOf(_)
SumOf(s) == IF s = << >> THEN 0 ELSE s[1] + SumOf(Tail(s))

\* f"{total / count:.1f}" in tenths: the nearest tenth, and the even one at a
\* tie.  (A tie is a mean ending in .x5; below 20 values it is a multiple of
\* 0.25, which a float holds exactly, so the even tenth is what is printed.)
Format1(total, count) ==
  LET q == (10 * total) \div count
      r == (10 * total) % count
  IN IF 2 * r < count THEN q
     ELSE IF 2 * r > count THEN q + 1
     ELSE IF q % 2 = 0 THEN q ELSE q + 1

\* The metric shown for one column: f"{filtered_df[col].mean():.1f}".
Metric(rows, col) ==
  LET values == ColumnValues(rows, col)
  IN IF values = << >> THEN NaN ELSE <<Format1(SumOf(values), Len(values))>>

\* The script starts (a first visit, or a rerun after a widget changed).
DashStart ==
  /\ dash \in {"off", "stopped", "shown", "failed"}
  /\ dash' = "ensure"
  /\ foundAtStart' = FALSE
  /\ syncLaunches' = 0
  /\ launchRun' = 0
  /\ syncOutcome' = "none"
  /\ queries' = 0
  /\ df' = << >>
  /\ selected_loc' = ALL_OPTION
  /\ avg_min' = NaN
  /\ avg_max' = NaN
  /\ UNCHANGED <<profile, pc, run, outcome, storeVars, loadVars, batchVars, placeVars>>

\* ensure_database, lines 34-46: return True when DB_PATH exists, report and
\* return False when the sync script is missing, else start the subprocess
\* and wait for it.  (One entry point runs at a time in this model, and at
\* most RunLimit of them.)
EnsureDatabase ==
  /\ dash = "ensure"
  /\ IF DbPathExists
     THEN /\ foundAtStart' = TRUE
          /\ dash' = "checked"
          /\ UNCHANGED <<syncLaunches, launchRun>>
     ELSE IF ~syncScriptExists
     THEN /\ dash' = "stopped"
          /\ UNCHANGED <<foundAtStart, syncLaunches, launchRun>>
     ELSE /\ pc = "idle"
          /\ run < RunLimit(profile)
          /\ dash' = "syncing"
          /\ syncLaunches' = syncLaunches + 1
          /\ launchRun' = run
          /\ UNCHANGED foundAtStart
  /\ UNCHANGED <<profile, pc, run, outcome, storeVars, loadVars, batchVars, placeVars,
                 syncOutcome, pageVars>>

\* The subprocess has ended and subprocess.run has not returned yet.
SyncEnded == dash = "syncing" /\ pc = "idle" /\ run > launchRun

\* ensure_database, lines 47-58: subprocess.run returns or, the exit status
\* being non-zero (the entry point ended with an exception), raises
\* CalledProcessError; then `return DB_PATH.exists()`, and st.stop() on False.
SyncReturns ==
  /\ SyncEnded
  /\ syncOutcome' = outcome
  /\ dash' = IF outcome # "crashed" /\ DbPathExists THEN "checked" ELSE "stopped"
  /\ UNCHANGED <<profile, pc, run, outcome, storeVars, loadVars, batchVars, placeVars,
                 foundAtStart, syncLaunches, launchRun, pageVars>>

\* Lines 64-110: the second existence test, the query, and for a table that is
\* not empty the sidebar choice and the two metrics.
ReadTable ==
  /\ dash = "checked"
  /\ IF ~DbPathExists
     THEN dash' = "shown" /\ UNCHANGED pageVars
     ELSE IF ~tableExists
     THEN dash' = "failed" /\ queries' = queries + 1
          /\ UNCHANGED <<df, selected_loc, avg_min, avg_max>>
     ELSE /\ dash' = "shown"
          /\ queries' = queries + 1
          /\ df' = Visible(table, pending)
          /\ IF df' = << >>
             THEN UNCHANGED <<selected_loc, avg_min, avg_max>>
             ELSE \E sel \in Options(df') :
                    /\ selected_loc' = sel
                    /\ avg_min' = Metric(Filtered(df', sel), "min_temp")
                    /\ avg_max' = Metric(Filtered(df', sel), "max_temp")
  /\ UNCHANGED <<profile, pc, run, outcome, storeVars, loadVars, batchVars, placeVars,
                 foundAtStart, syncLaunches, launchRun, syncOutcome>>

\* The entry point started from a shell, or as the subprocess of the
\* dashboard; subprocess.run returns before another run is started.
EntryPoint == ~SyncEnded /\ InitDb

DashNext ==
  \/ EntryPoint
  \/ LoadPayload
  \/ ParseForecasts
  \/ ProcessForecast
  \/ ProcessTide
  \/ Commit
  \/ DashStart
  \/ EnsureDatabase
  \/ SyncReturns
  \/ ReadTable

SpecDash == InitDash /\ [][DashNext]_vars

\* ------------------------------------------------------------------ claims

\* The rows of the table written by run r.
RowsOfRun(r) == SelectSeq(table, LAMBDA row : row.run = r)

\* The rows one run over payload p inserts when no INSERT raises out of the
\* batch: the successful agricultural attempts, or one row per tide entry.
ProjectedRows(p, r) ==
  LET f == IterForecastLocations(p)
      t == IterTideLocations(p)
      Ok(k) == SelectSeq(AgrAttempts(f[k], k), LAMBDA a : a.ok)
      G[k \in 0..Len(f)] ==
        IF k = 0 THEN << >>
        ELSE G[k - 1] \o [i \in 1..Len(Ok(k)) |-> AgrRow(Ok(k)[i], r)]
  IN IF f # << >> THEN G[Len(f)] ELSE [k \in 1..Len(t) |-> TideRow(t[k], r, k)]

\* C1: after the entry point has run a second time and committed, the weather
\* table holds exactly the records projected from the second payload and no
\* row of an earlier run, whatever the deletion of the old store did.
C1_RerunLeavesOnlySecondPayload ==
  (pc = "idle" /\ run >= 2 /\ outcome = "committed")
    => /\ \A i \in 1..Len(table) : table[i].run = run
       /\ table = ProjectedRows(payload, run)

\* A payload is well-formed agricultural data with n locations of m days when
\* the location lists it holds are all the same list of n dict entries, each
\* with MinT, MaxT and Wx series of m dict members and numeric temperatures.
WellFormedEntry(e, m) ==
  /\ e.isDict
  /\ Bindable(e.locationName)
  /\ \A el \in {e.MinT, e.MaxT, e.Wx} :
       /\ el.kind = "list"
       /\ Len(el.daily) = m
       /\ \A i \in 1..m : el.daily[i].isDict
  /\ \A el \in {e.MinT, e.MaxT} :
       \A i \in 1..m : Coercible(el.daily[i].temperature)

WellFormedAgr(p, n, m) ==
  LET blocks == PotentialDataBlocks(p)
      lists == {i \in 1..Len(blocks) : blocks[i].isList}
  IN /\ lists # {}
     /\ n >= 1
     /\ m >= 1
     /\ \A i \in lists :
          /\ Len(blocks[i].items) = n
          /\ \A j \in lists : blocks[i].items = blocks[j].items
          /\ \A k \in 1..n : WellFormedEntry(blocks[i].items[k], m)

\* C2: a committed run over a well-formed agricultural payload of n locations
\* with m days each inserts exactly n*m records into the fresh store, also when
\* both nesting paths hold the locations.
C2_WellFormedYieldsNTimesM ==
  \A n \in 1..(MaxLocs + 1), m \in 1..(MaxDays + 1) :
    (pc = "idle" /\ outcome = "committed" /\ WellFormedAgr(payload, n, m))
      => /\ insert_count = n * m
         /\ reported = n * m
         /\ Len(table) = n * m
         /\ Len(attempts) = n * m

C2_Witness ==
  /\ pc = "idle"
  /\ outcome = "committed"
  /\ WellFormedAgr(payload, 2, 2)
  /\ Len(PotentialDataBlocks(payload)) = 2
  /\ \A i \in 1..2 : PotentialDataBlocks(payload)[i].isList
  /\ Len(table) = 4

\* The attempts made for the k-th location of the run.
AttemptsOf(k) == SelectSeq(attempts, LAMBDA a : a.entry = k)

\* The series of an element as fetch_and_save holds it: the dict members of
\* its daily list.
SeriesOf(el) == SelectSeq(el.daily, LAMBDA it : it.isDict)

Smallest(S) == CHOOSE x \in S : \A y \in S : x <= y

\* C3: for every agricultural location handled whose three series are all
\* non-empty, exactly min(a, b, c) inserts are attempted, the i-th from the
\* i-th member of each series.
C3_PositionalUpToShortest ==
  path = "agr" =>
    \A k \in 1..done :
      LET mn == SeriesOf(locs[k].MinT)
          mx == SeriesOf(locs[k].MaxT)
          wx == SeriesOf(locs[k].Wx)
          att == AttemptsOf(k)
      IN (mn # << >> /\ mx # << >> /\ wx # << >>)
           => /\ Len(att) = Smallest({Len(mn), Len(mx), Len(wx)})
              /\ \A i \in 1..Len(att) :
                   /\ att[i].min_raw = mn[i].temperature
                   /\ att[i].max_raw = mx[i].temperature
                   /\ att[i].description = wx[i].weather
                   /\ att[i].forecast_date = PyOr(mn[i].dataDate, mx[i].dataDate)
                   /\ att[i].location = locs[k].locationName

C3_Witness ==
  /\ path = "agr"
  /\ \E k \in 1..done :
       /\ Len(SeriesOf(locs[k].MinT)) = 2
       /\ Len(SeriesOf(locs[k].MaxT)) = 2
       /\ Len(SeriesOf(locs[k].Wx)) = 1
       /\ Len(locs[k].Wx.daily) = 2
       /\ Len(AttemptsOf(k)) = 1

\* A location lacks a series when MinT, MaxT or Wx is absent, has no daily
\* list, or has an empty one.
Lacks(e) ==
  \E el \in {e.MinT, e.MaxT, e.Wx} : el.kind # "list" \/ el.daily = << >>

InSeq(x, s) == \E i \in 1..Len(s) : s[i] = x

\* C4: a location that lacks a series gets no insert and is reported skipped,
\* the other locations are still handled, and every agricultural row comes
\* from a location with all three series.
C4_IncompleteLocationSkipped ==
  path = "agr" =>
    /\ \A k \in 1..done :
         Lacks(locs[k]) => /\ AttemptsOf(k) = << >>
                           /\ InSeq(k, skipped)
    /\ \A i \in 1..Len(pending) : ~Lacks(locs[pending[i].entry])
    /\ \A i \in 1..Len(table) :
         table[i].run = run => ~Lacks(locs[table[i].entry])
    /\ outcome = "committed" =>
         /\ done = Len(locs)
         /\ \A k \in 1..Len(locs) : InSeq(k, skipped) \/ AttemptsOf(k) # << >>
         /\ \A k \in 1..Len(locs) : ~(InSeq(k, skipped) /\ AttemptsOf(k) # << >>)

C4_Witness ==
  /\ path = "agr"
  /\ outcome = "committed"
  /\ Len(locs) = 2
  /\ Lacks(locs[1])
  /\ skipped = <<1>>
  /\ \E i \in 1..Len(table) : table[i].entry = 2

\* The candidate the claim names: the first of dataset.data, resource.data and
\* the tide list whose location list is a non-empty list.
FirstNonEmptyCandidate(p) ==
  LET cands == PotentialDataBlocks(p) \o <<p.tide>>
      full == {i \in 1..Len(cands) : cands[i].isList /\ cands[i].items # << >>}
  IN IF full = {} THEN << >>
     ELSE SelectSeq(cands[Smallest(full)].items, LAMBDA e : e.isDict)

\* C5: the locations a run iterates are those of the first candidate, in
\* priority order, whose location list is non-empty; an absent or empty
\* candidate is passed over for the next one.
C5_FirstNonEmptyCandidateWins ==
  connOpened => locs = FirstNonEmptyCandidate(payload)

\* The rows of a run over payload p when a failing INSERT costs that record
\* only.
InsertableRows(p, r) ==
  LET f == IterForecastLocations(p)
      t == IterTideLocations(p)
      good == {k \in 1..Len(t) : TideInsertOk(t[k])}
      Pick[k \in 0..Len(t)] ==
        IF k = 0 THEN << >>
        ELSE IF k \in good THEN Append(Pick[k - 1], TideRow(t[k], r, k))
        ELSE Pick[k - 1]
  IN IF f # << >> THEN ProjectedRows(p, r) ELSE Pick[Len(t)]

\* C6: when fetch_and_save has ended after loading a payload, every record
\* whose INSERT did not fail is in the table, in either path, and the count
\* reported is the number of rows inserted.
C6_InsertFailureCostsOneRecord ==
  (pc = "idle" /\ outcome \in {"committed", "crashed"})
    => /\ RowsOfRun(run) = InsertableRows(payload, run)
       /\ reported = Len(RowsOfRun(run))

\* C7: when loading the payload failed, fetch_and_save opened no connection
\* and executed no insert, and the weather table exists and is empty.
C7_LoadFailureLeavesEmptyTable ==
  (pc = "idle" /\ outcome = "load_failed")
    => /\ ~connOpened
       /\ attempts = << >>
       /\ pending = << >>
       /\ tableExists
       /\ table = << >>

\* C8: when the run yields no agricultural location, every row it inserts has
\* min_temp = 0.0 and max_temp = 0.0.
C8_TideRowsHaveZeroTemperatures ==
  (connOpened /\ IterForecastLocations(payload) = << >>)
    => /\ \A i \in 1..Len(pending) :
            pending[i].min_temp = <<0>> /\ pending[i].max_temp = <<0>>
       /\ \A i \in 1..Len(table) :
            table[i].run = run =>
              table[i].min_temp = <<0>> /\ table[i].max_temp = <<0>>

C8_Witness ==
  /\ outcome = "committed"
  /\ IterForecastLocations(payload) = << >>
  /\ Len(table) >= 2

\* The first startTime of a tide location, "" when it has none.
RawStartTime(e) == IF e.time = << >> THEN << >> ELSE e.time[1]

\* The rows this run has inserted: those of the open transaction and those it
\* has committed.
RowsInserted == pending \o RowsOfRun(run)

\* C9 as stated: every tide row stores the raw first startTime of its location
\* unchanged as forecast_date and as description.
C9_RawTimeIsDateAndDescription ==
  path = "tide" =>
    \A i \in 1..Len(RowsInserted) :
      LET row == RowsInserted[i] IN
        /\ row.forecast_date = RawStartTime(locs[row.entry])
        /\ row.description = RawStartTime(locs[row.entry])

\* C9 as amended: every tide row stores the raw first startTime unchanged as
\* its description and the first 10 characters of it (all of it when shorter)
\* as its forecast_date; an empty startTime is stored as the two placeholders.
C9_DateIsPrefixOfRawTime ==
  path = "tide" =>
    \A i \in 1..Len(RowsInserted) :
      LET row == RowsInserted[i]
          raw == RawStartTime(locs[row.entry])
      IN /\ raw # << >> => row.description = raw
         /\ raw = << >> => row.description = TideLabel /\ row.forecast_date = UnknownDate
         /\ Len(raw) \in 1..9 => row.forecast_date = raw
         /\ Len(raw) >= 10 =>
              /\ Len(row.forecast_date) = 10
              /\ \A c \in 1..10 : row.forecast_date[c] = raw[c]

C9_Witness ==
  /\ path = "tide"
  /\ outcome = "committed"
  /\ \E i \in 1..Len(table) :
       /\ Len(RawStartTime(locs[table[i].entry])) > 10
       /\ table[i].description = RawStartTime(locs[table[i].entry])
       /\ table[i].forecast_date # RawStartTime(locs[table[i].entry])

\* C10: a run reads exactly one source: the local file and no GET when the
\* file exists (also when it does not decode), exactly one GET otherwise.
C10_ExactlyOneSource ==
  /\ pc = "fetch" => fileReads = 0 /\ httpGets = 0
  /\ (run >= 1 /\ pc # "fetch") =>
       /\ httpGets <= 1
       /\ localExists => fileReads = 1 /\ httpGets = 0
       /\ ~localExists => fileReads = 0 /\ httpGets = 1

C10_Witness ==
  /\ outcome = "load_failed"
  /\ localExists
  /\ loadError = "decode"
  /\ fileReads = 1
  /\ httpGets = 0

\* ------------------------------------------------------ claims, the dashboard

\* The script run has left ensure_database with True.
Proceeded == dash \in {"checked", "shown", "failed"}

\* ensure_database found no store file, and the sync script was there.
SyncDue == dash \notin {"off", "ensure"} /\ ~foundAtStart /\ syncScriptExists

\* The parts of C11 about how often the ingestion script is run and about the
\* state in which the query is issued.
SyncOnlyWhenAbsent ==
  /\ SyncDue => syncLaunches = 1
  /\ queries > 0 /\ ~foundAtStart => syncOutcome # "none"
  /\ foundAtStart => syncLaunches = 0
  /\ ~syncScriptExists => syncLaunches = 0
  /\ queries > 0 => DbPathExists

\* C11: in one script run of the dashboard, a store file that is absent (the
\* sync script being present) makes the dashboard run the ingestion script
\* exactly once, before any query; after an ingestion that committed, the
\* dashboard goes on to read the store; a store file that is present means no
\* ingestion is run; and the query is only issued while the store file exists
\* at DB_PATH.
C11_SyncOnceThenReadStore ==
  /\ SyncOnlyWhenAbsent
  /\ syncOutcome = "committed" => Proceeded

\* The overview of all locations is on the page.
OverviewShown ==
  dash = "shown" /\ queries > 0 /\ df # << >> /\ selected_loc = ALL_OPTION

\* The positions of the stored rows that hold a value in column col.
Given(col) == {i \in 1..Len(table) : table[i][col] # << >>}

RECURSIVE TotalOver(_, _)
TotalOver(col, S) ==
  IF S = {} THEN 0
  ELSE LET i == CHOOSE j \in S : TRUE IN table[i][col][1] + TotalOver(col, S \ {i})

\* The sum of the values of column col over the stored rows.
Total(col) == TotalOver(col, Given(col))

\* The metric shows exactly the mean of the values of column col (where the
\* column holds a value at all).
ShowsExactMean(shown, col) ==
  Given(col) # {} =>
    shown # NaN /\ shown[1] * Cardinality(Given(col)) = 10 * Total(col)

\* The metric shows the mean of the values of column col to the nearest tenth
\* of a degree (where the column holds a value at all).
ShowsRoundedMean(shown, col) ==
  LET n == Cardinality(Given(col))
      gap == 10 * Total(col) - shown[1] * n
  IN n # 0 => shown # NaN /\ 2 * gap <= n /\ -2 * gap <= n

\* C12 as stated: with ALL_OPTION selected, each of the two metrics equals the
\* arithmetic mean of its column over all rows stored in the weather table.
C12_AverageIsMeanOfAllRows ==
  OverviewShown =>
    ShowsExactMean(avg_min, "min_temp") /\ ShowsExactMean(avg_max, "max_temp")

\* C12 amended: with ALL_OPTION selected, each of the two metrics is the
\* arithmetic mean, rounded to one decimal place, of the values its column
\* holds over all rows stored in the weather table, whatever their location
\* and date; rows whose value is NULL are left out of that column's mean.
C12_AverageIsRoundedMeanOfValues ==
  OverviewShown =>
    ShowsRoundedMean(avg_min, "min_temp") /\ ShowsRoundedMean(avg_max, "max_temp")

\* The overview over rows of two locations, one of them with a NULL maximum,
\* whose mean minimum is no whole number of tenths.
C12_Witness ==
  /\ OverviewShown
  /\ Cardinality({table[i].location : i \in 1..Len(table)}) >= 2
  /\ Given("max_temp") # {} /\ Given("max_temp") # Given("min_temp")
  /\ (10 * Total("min_temp")) % Cardinality(Given("min_temp")) # 0

\* The rows of run r among those the last query returned.
SeenOfRun(r) == SelectSeq(df, LAMBDA row : row.run = r)

\* The query of this script run has returned.
QueryReturned == dash = "shown" /\ queries > 0

\* C13: the inserts of one fetch_and_save run become visible together at its
\* commit.  Whatever the interleaving of the dashboard's query with the run,
\* the query returns none of the run's rows or all the rows the run inserted,
\* and then the run has committed; while the batch is open none of its rows
\* is in the store; and a run ended by an uncaught exception leaves none of
\* its rows in the store.  (The entry point runs once beside the dashboard,
\* so the store does not change after the commit.)
C13_ReadSeesNoneOrAllOfRun ==
  /\ QueryReturned =>
       \/ SeenOfRun(run) = << >>
       \/ /\ outcome = "committed"
          /\ SeenOfRun(run) = RowsOfRun(run)
          /\ Len(SeenOfRun(run)) = insert_count
  /\ pc # "idle" => RowsOfRun(run) = << >>
  /\ outcome = "crashed" => RowsOfRun(run) = << >> /\ pending = << >>

\* A query has returned while the batch holds rows not yet committed.
C13_Witness ==
  /\ QueryReturned
  /\ pc = "batch"
  /\ Len(pending) >= 2
  /\ SeenOfRun(run) = << >>

\* A query has returned every row of a committed run of several rows.
C13_WitnessAll ==
  /\ QueryReturned
  /\ outcome = "committed"
  /\ Len(SeenOfRun(run)) >= 2
  /\ SeenOfRun(run) = RowsOfRun(run)

\* A run that had inserted a row ended with an exception.
C13_WitnessCrash ==
  /\ outcome = "crashed"
  /\ insert_count >= 1

====
